---------------------------- MODULE Spec2Model ----------------------------
(***************************************************************************)
(* Model of main.py, the instruction-table generator:                      *)
(*                                                                         *)
(*   df = pd.read_csv("cpu_instruction.csv")                               *)
(*   for _, r in df.iterrows():                                            *)
(*       name = r.get('name') ... cycle = r.get('cycles')                  *)
(*       print(f"Instruction::new(...)")                                   *)
(*                                                                         *)
(* The script is run MaxRuns times, one process after the other, on the    *)
(* same unchanged input file.  A cell of the file is a sequence of         *)
(* one-character strings (the text of the field as the CSV tokenizer       *)
(* delivers it); what is written to standard output is a TLA+ string.      *)
(* The sample cells use letters, digits, '.', and '"' only: no sign, no    *)
(* blank, no exponent, no boolean literal and no line break occurs in a    *)
(* cell, so read_csv's number recognition is modelled for unsigned         *)
(* decimal texts.                                                          *)
(***************************************************************************)
EXTENDS Integers, Sequences, FiniteSets

VARIABLES
  file,            \* the input file cpu_instruction.csv (never written)
  pc,              \* pc[p]: the statement process p executes next
  df,              \* df[p]: the loaded DataFrame
  it,              \* it[p]: number of rows the iterrows() generator has yielded
  r,               \* r[p]: the row Series of the current iteration
  name,            \* name[p], operation[p], addressingMode[p], cycle[p]:
  operation,       \*   the loop body's local variables
  addressingMode,
  cycle,
  stdout           \* stdout[p]: the sequence of texts written by print

vars == <<file, pc, df, it, r, name, operation, addressingMode, cycle, stdout>>

MaxRows == 2       \* data rows of the input file
MaxRuns == 2       \* runs of the script on the same file

Runs == 1..MaxRuns

---------------------------------------------------------------------------
(* Text helpers *)

Digits == {"0", "1", "2", "3", "4", "5", "6", "7", "8", "9"}

DigitVal(c) ==
  CASE c = "0" -> 0 [] c = "1" -> 1 [] c = "2" -> 2 [] c = "3" -> 3
    [] c = "4" -> 4 [] c = "5" -> 5 [] c = "6" -> 6 [] c = "7" -> 7
    [] c = "8" -> 8 [] c = "9" -> 9

DigitChar(d) ==
  CASE d = 0 -> "0" [] d = 1 -> "1" [] d = 2 -> "2" [] d = 3 -> "3"
    [] d = 4 -> "4" [] d = 5 -> "5" [] d = 6 -> "6" [] d = 7 -> "7"
    [] d = 8 -> "8" [] d = 9 -> "9"

\* The string made of the characters of cs, in order.
RECURSIVE Text(_)
Text(cs) == IF cs = <<>> THEN "" ELSE Head(cs) \o Text(Tail(cs))

\* str(n) of a Python int n >= 0: decimal, no leading zeros.
RECURSIVE IntStr(_)
IntStr(n) == IF n < 10 THEN DigitChar(n)
             ELSE IntStr(n \div 10) \o DigitChar(n % 10)

---------------------------------------------------------------------------
(* Values held by a DataFrame cell or a Python variable.  One record shape *)
(* for all of them: kind, n (int value / integer part), f (fraction        *)
(* digits of a float, trailing zeros dropped), s (characters of a str).    *)

StrVal(cs)      == [kind |-> "str",   n |-> 0, f |-> <<>>, s |-> cs]
IntVal(n)       == [kind |-> "int",   n |-> n, f |-> <<>>, s |-> <<>>]
FloatVal(n, fr) == [kind |-> "float", n |-> n, f |-> fr,   s |-> <<>>]
NaN             == [kind |-> "nan",   n |-> 0, f |-> <<>>, s |-> <<>>]
None            == [kind |-> "None",  n |-> 0, f |-> <<>>, s |-> <<>>]
KeyError        == [kind |-> "KeyError", n |-> 0, f |-> <<>>, s |-> <<>>]
Unbound         == [kind |-> "unbound",  n |-> 0, f |-> <<>>, s |-> <<>>]

\* format(v, '') as the f-string applies it: str(v).
PyStr(v) ==
  CASE v.kind = "str"   -> Text(v.s)
    [] v.kind = "int"   -> IntStr(v.n)
    [] v.kind = "float" -> IntStr(v.n) \o "." \o (IF v.f = <<>> THEN "0" ELSE Text(v.f))
    [] v.kind = "nan"   -> "nan"
    [] v.kind = "None"  -> "None"
    [] OTHER            -> "<" \o v.kind \o ">"

---------------------------------------------------------------------------
(* pd.read_csv with its default arguments (na_filter, keep_default_na,     *)
(* dtype inference per column).                                            *)

\* The default NA strings of read_csv.
NaValues ==
  { <<>>,
    <<"N","A">>, <<"N","/","A">>, <<"n","/","a">>, <<"N","a","N">>,
    <<"n","a","n">>, <<"-","N","a","N">>, <<"-","n","a","n">>,
    <<"N","U","L","L">>, <<"n","u","l","l">>, <<"N","o","n","e">>,
    <<"#","N","/","A">>, <<"#","N","A">>, <<"<","N","A",">">>,
    <<"#","N","/","A"," ","N","/","A">>,
    <<"1",".","#","I","N","D">>, <<"1",".","#","Q","N","A","N">>,
    <<"-","1",".","#","I","N","D">>, <<"-","1",".","#","Q","N","A","N">> }

IsNa(cell) == cell \in NaValues

\* The tokenizer's integer recognition, for unsigned texts: digits only.
IsIntText(cell) ==
  /\ cell # <<>>
  /\ \A i \in DOMAIN cell : cell[i] \in Digits

\* The tokenizer's float recognition, for unsigned texts without exponent:
\* digits with at most one '.', and at least one digit.
IsFloatText(cell) ==
  /\ \A i \in DOMAIN cell : cell[i] \in Digits \cup {"."}
  /\ \E i \in DOMAIN cell : cell[i] \in Digits
  /\ Cardinality({i \in DOMAIN cell : cell[i] = "."}) <= 1

\* Value of a digit sequence (leading zeros vanish).
RECURSIVE ParseInt(_)
ParseInt(ds) == IF ds = <<>> THEN 0
                ELSE 10 * ParseInt(SubSeq(ds, 1, Len(ds) - 1)) + DigitVal(ds[Len(ds)])

RECURSIVE StripTrailingZeros(_)
StripTrailingZeros(ds) ==
  IF ds # <<>> /\ ds[Len(ds)] = "0"
  THEN StripTrailingZeros(SubSeq(ds, 1, Len(ds) - 1))
  ELSE ds

\* The float a numeric text denotes, as integer part and fraction digits.
ParseFloat(cell) ==
  LET dots == {i \in DOMAIN cell : cell[i] = "."}
      dot  == IF dots = {} THEN Len(cell) + 1 ELSE CHOOSE i \in dots : TRUE
  IN FloatVal(ParseInt(SubSeq(cell, 1, dot - 1)),
              StripTrailingZeros(SubSeq(cell, dot + 1, Len(cell))))

\* The dtype read_csv infers for a column from all of its cells:
\* int64, else float64, else object; NA cells turn an integer column into
\* float64, and a column of NA cells only is float64.
InferDtype(cells) ==
  LET nonNa == {i \in DOMAIN cells : ~IsNa(cells[i])} IN
  IF cells = <<>> THEN "object"
  ELSE IF \A i \in nonNa : IsIntText(cells[i])
       THEN (IF nonNa = DOMAIN cells THEN "int64" ELSE "float64")
  ELSE IF \A i \in nonNa : IsFloatText(cells[i]) THEN "float64"
  ELSE "object"

\* The value a cell gets in a column of the given dtype.
ConvertCell(cell, dtype) ==
  IF IsNa(cell) THEN NaN
  ELSE CASE dtype = "int64"   -> IntVal(ParseInt(cell))
         [] dtype = "float64" -> ParseFloat(cell)
         [] OTHER             -> StrVal(cell)

Column(f, c) == [k \in DOMAIN f.rows |-> f.rows[k][c]]

\* The DataFrame read_csv builds from a readable, parseable file: the
\* columns of the header, one dtype per column, the data rows in file order.
read_csv(f) ==
  LET dtypes == [c \in f.columns |-> InferDtype(Column(f, c))] IN
  [columns |-> f.columns,
   dtypes  |-> dtypes,
   data    |-> [k \in DOMAIN f.rows |->
                 [c \in f.columns |-> ConvertCell(f.rows[k][c], dtypes[c])]]]

EmptyFrame == [columns |-> {}, dtypes |-> <<>>, data |-> <<>>]

---------------------------------------------------------------------------
(* df.iterrows(), Series.get and the f-string. *)

\* The dtype of df.values, from which iterrows() builds every row Series:
\* the common dtype of all columns.
InterleavedDtype(d) ==
  LET ds == {d.dtypes[c] : c \in d.columns} IN
  IF Cardinality(ds) = 1 THEN CHOOSE x \in ds : TRUE
  ELSE IF ds \subseteq {"int64", "float64"} THEN "float64"
  ELSE "object"

\* A value stored in an array of the given dtype.
Upcast(v, dtype) ==
  IF dtype = "float64" /\ v.kind = "int" THEN FloatVal(v.n, <<>>) ELSE v

\* The k-th row Series iterrows() yields: rows come in index order.
RowSeries(d, k) ==
  LET common == InterleavedDtype(d) IN
  [c \in d.columns |-> Upcast(d.data[k][c], common)]

\* Variant: subscript access r[key], which raises on an absent label.
Series_getitem(row, key) == IF key \in DOMAIN row THEN row[key] ELSE KeyError

\* Series.get(key): the value under the label, None when the label is absent.
Series_get(row, key) == IF key \in DOMAIN row THEN row[key] ELSE None

\* The f-string of line 10.
FormatLine(nm, op, am, cy) ==
  "Instruction::new(\"" \o PyStr(nm) \o "\".to_string(),Some(Cpu::" \o PyStr(op)
    \o "),Some(Cpu::" \o PyStr(am) \o ")," \o PyStr(cy) \o "),"

---------------------------------------------------------------------------
(* The input files the runs are started on. *)

AllColumns == {"name", "operation", "addressingMode", "cycles"}

\* The header has all four columns, lacks one of them, or lacks two.
ColumnChoices ==
  {AllColumns} \cup {AllColumns \ {c} : c \in AllColumns} \cup {{"name", "cycles"}}

Row(nm, op, am, cy) ==
  [name |-> nm, operation |-> op, addressingMode |-> am, cycles |-> cy]

lda == <<"l","d","a">>
nop == <<"n","o","p">>
imm == <<"i","m","m">>
imp == <<"i","m","p">>

SampleRows ==
  { Row(<<"L","D","A">>,  lda,  imm,  <<"2">>),
    Row(<<"N","O","P">>,  nop,  imp,  <<"0","2">>),
    Row(<<"N","A">>,      nop,  imp,  <<"7">>),
    Row(<<"A","\"","B">>, lda,  imm,  <<"4">>),
    Row(<<"N","O","P">>,  nop,  imp,  <<>>),
    Row(<<>>,             <<>>, <<>>, <<"7">>),
    Row(<<"L","D","A">>,  lda,  imm,  <<"2",".","5","0">>),
    Row(<<"S","T","A">>,  <<"N","A">>, imm, <<"x">>) }

Restrict(row, cols) == [c \in cols |-> row[c]]

SeqsUpTo(S, n) == UNION {[1..k -> S] : k \in 0..n}

OkFiles ==
  UNION { { [status |-> "ok", columns |-> cols, rows |-> rows] :
              rows \in SeqsUpTo({Restrict(row, cols) : row \in SampleRows}, MaxRows) } :
          cols \in ColumnChoices }

FailedFiles ==
  { [status |-> s, columns |-> {}, rows |-> <<>>] :
      s \in {"absent", "unreadable", "unparseable"} }

InputFiles == OkFiles \cup FailedFiles

---------------------------------------------------------------------------
(* The program *)

Terminated(p) == pc[p] \in {"done", "aborted"}

\* The runs follow one another: a run starts when the one before has ended.
MayStart(p) == IF p = 1 THEN TRUE ELSE Terminated(p - 1)

Init ==
  /\ file \in InputFiles
  /\ pc = [p \in Runs |-> "read_csv"]
  /\ df = [p \in Runs |-> EmptyFrame]
  /\ it = [p \in Runs |-> 0]
  /\ r = [p \in Runs |-> <<>>]
  /\ name = [p \in Runs |-> Unbound]
  /\ operation = [p \in Runs |-> Unbound]
  /\ addressingMode = [p \in Runs |-> Unbound]
  /\ cycle = [p \in Runs |-> Unbound]
  /\ stdout = [p \in Runs |-> <<>>]

\* Variant: the load failure is swallowed and the script goes on with an
\* empty table.
ReadCsvSwallow(p) ==
  /\ pc[p] = "read_csv"
  /\ MayStart(p)
  /\ df' = [df EXCEPT ![p] = IF file.status = "ok" THEN read_csv(file) ELSE EmptyFrame]
  /\ pc' = [pc EXCEPT ![p] = "for"]
  /\ UNCHANGED <<file, it, r, name, operation, addressingMode, cycle, stdout>>

\* Line 3: df = pd.read_csv("cpu_instruction.csv").  The exception read_csv
\* raises on a file it cannot load is not caught: the process ends.
ReadCsv(p) ==
  /\ pc[p] = "read_csv"
  /\ MayStart(p)
  /\ IF file.status = "ok"
     THEN /\ df' = [df EXCEPT ![p] = read_csv(file)]
          /\ pc' = [pc EXCEPT ![p] = "for"]
     ELSE /\ pc' = [pc EXCEPT ![p] = "aborted"]
          /\ UNCHANGED df
  /\ UNCHANGED <<file, it, r, name, operation, addressingMode, cycle, stdout>>

\* Variant: the rows are yielded last to first.
ForNextReversed(p) ==
  /\ pc[p] = "for"
  /\ it[p] < Len(df[p].data)
  /\ r' = [r EXCEPT ![p] = RowSeries(df[p], Len(df[p].data) - it[p])]
  /\ it' = [it EXCEPT ![p] = it[p] + 1]
  /\ pc' = [pc EXCEPT ![p] = "get_name"]
  /\ UNCHANGED <<file, df, name, operation, addressingMode, cycle, stdout>>

\* Variant: the rows are yielded in an order that is not fixed (iteration
\* over an unordered collection).
ForNextAnyRow(p) ==
  /\ pc[p] = "for"
  /\ it[p] < Len(df[p].data)
  /\ \E k \in 1..Len(df[p].data) : r' = [r EXCEPT ![p] = RowSeries(df[p], k)]
  /\ it' = [it EXCEPT ![p] = it[p] + 1]
  /\ pc' = [pc EXCEPT ![p] = "get_name"]
  /\ UNCHANGED <<file, df, name, operation, addressingMode, cycle, stdout>>

\* Line 5: the generator yields the next row.
ForNext(p) ==
  /\ pc[p] = "for"
  /\ it[p] < Len(df[p].data)
  /\ r' = [r EXCEPT ![p] = RowSeries(df[p], it[p] + 1)]
  /\ it' = [it EXCEPT ![p] = it[p] + 1]
  /\ pc' = [pc EXCEPT ![p] = "get_name"]
  /\ UNCHANGED <<file, df, name, operation, addressingMode, cycle, stdout>>

\* Variant: the loop may end one row early.
ForExhaustedEarly(p) ==
  /\ pc[p] = "for"
  /\ it[p] + 1 >= Len(df[p].data)
  /\ pc' = [pc EXCEPT ![p] = "done"]
  /\ UNCHANGED <<file, df, it, r, name, operation, addressingMode, cycle, stdout>>

\* Line 5: the generator is exhausted; the script ends.
ForExhausted(p) ==
  /\ pc[p] = "for"
  /\ it[p] >= Len(df[p].data)
  /\ pc' = [pc EXCEPT ![p] = "done"]
  /\ UNCHANGED <<file, df, it, r, name, operation, addressingMode, cycle, stdout>>

\* Line 6: name = r.get('name')
GetName(p) ==
  /\ pc[p] = "get_name"
  /\ LET v == Series_get(r[p], "name") IN
     IF v = KeyError
     THEN pc' = [pc EXCEPT ![p] = "aborted"] /\ UNCHANGED name
     ELSE pc' = [pc EXCEPT ![p] = "get_operation"] /\ name' = [name EXCEPT ![p] = v]
  /\ UNCHANGED <<file, df, it, r, operation, addressingMode, cycle, stdout>>

\* Line 7: operation = r.get('operation')
GetOperation(p) ==
  /\ pc[p] = "get_operation"
  /\ LET v == Series_get(r[p], "operation") IN
     IF v = KeyError
     THEN pc' = [pc EXCEPT ![p] = "aborted"] /\ UNCHANGED operation
     ELSE pc' = [pc EXCEPT ![p] = "get_addressingMode"]
          /\ operation' = [operation EXCEPT ![p] = v]
  /\ UNCHANGED <<file, df, it, r, name, addressingMode, cycle, stdout>>

\* Line 8: addressingMode = r.get('addressingMode')
GetAddressingMode(p) ==
  /\ pc[p] = "get_addressingMode"
  /\ LET v == Series_get(r[p], "addressingMode") IN
     IF v = KeyError
     THEN pc' = [pc EXCEPT ![p] = "aborted"] /\ UNCHANGED addressingMode
     ELSE pc' = [pc EXCEPT ![p] = "get_cycles"]
          /\ addressingMode' = [addressingMode EXCEPT ![p] = v]
  /\ UNCHANGED <<file, df, it, r, name, operation, cycle, stdout>>

\* Line 9: cycle = r.get('cycles')
GetCycle(p) ==
  /\ pc[p] = "get_cycles"
  /\ LET v == Series_get(r[p], "cycles") IN
     IF v = KeyError
     THEN pc' = [pc EXCEPT ![p] = "aborted"] /\ UNCHANGED cycle
     ELSE pc' = [pc EXCEPT ![p] = "print"] /\ cycle' = [cycle EXCEPT ![p] = v]
  /\ UNCHANGED <<file, df, it, r, name, operation, addressingMode, stdout>>

\* Variant: rows whose cycle count is missing are not written.
PrintLineSkipMissing(p) ==
  /\ pc[p] = "print"
  /\ stdout' = [stdout EXCEPT ![p] =
       IF cycle[p] = NaN THEN stdout[p]
       ELSE Append(stdout[p],
              FormatLine(name[p], operation[p], addressingMode[p], cycle[p]) \o "\n")]
  /\ pc' = [pc EXCEPT ![p] = "for"]
  /\ UNCHANGED <<file, df, it, r, name, operation, addressingMode, cycle>>

\* Variant: the print statement stands before the cycles lookup.
PrintLineEarly(p) ==
  /\ pc[p] = "get_cycles"
  /\ stdout' = [stdout EXCEPT ![p] =
       Append(stdout[p],
              FormatLine(name[p], operation[p], addressingMode[p], cycle[p]) \o "\n")]
  /\ pc' = [pc EXCEPT ![p] = "for"]
  /\ UNCHANGED <<file, df, it, r, name, operation, addressingMode, cycle>>

\* Line 10: print(f"...") writes the formatted text and a line terminator.
PrintLine(p) ==
  /\ pc[p] = "print"
  /\ stdout' = [stdout EXCEPT ![p] =
       Append(stdout[p],
              FormatLine(name[p], operation[p], addressingMode[p], cycle[p]) \o "\n")]
  /\ pc' = [pc EXCEPT ![p] = "for"]
  /\ UNCHANGED <<file, df, it, r, name, operation, addressingMode, cycle>>

Next ==
  \E p \in Runs :
    \/ ReadCsv(p)
    \/ ForNext(p)
    \/ ForExhausted(p)
    \/ GetName(p)
    \/ GetOperation(p)
    \/ GetAddressingMode(p)
    \/ GetCycle(p)
    \/ PrintLine(p)

Spec == Init /\ [][Next]_vars

\* The interpreter runs a single-threaded script without pause: a statement
\* that can execute does.
LiveSpec == Spec /\ WF_vars(Next)

---------------------------------------------------------------------------
(* Properties *)

\* The statements of the loop body.
InBody(p) ==
  pc[p] \in {"get_name", "get_operation", "get_addressingMode", "get_cycles", "print"}

\* Rows whose iteration has run to its end.
RowsCompleted(p) == IF InBody(p) THEN it[p] - 1 ELSE it[p]

\* The text the script writes for row k of file f: lines 5 to 10 applied to
\* the k-th row of the loaded table.
LineOfRow(f, k) ==
  LET row == RowSeries(read_csv(f), k) IN
  FormatLine(Series_get(row, "name"), Series_get(row, "operation"),
             Series_get(row, "addressingMode"), Series_get(row, "cycles")) \o "\n"

\* The output template of the specification, filled with four texts.
ExpectedLine(nm, op, am, cy) ==
  "Instruction::new(\"" \o nm \o "\".to_string(),Some(Cpu::" \o op
    \o "),Some(Cpu::" \o am \o ")," \o cy \o "),\n"

\* What the script prints for the field col of row k of the input file.
Printed(col, k) == PyStr(Series_get(RowSeries(read_csv(file), k), col))

\* C1: on a loadable file with N data rows, the number of lines written
\* equals the number of rows whose iteration is complete at every state, and
\* is exactly N (zero for a header-only file) when the run has ended.
C1_LineCount ==
  \A p \in Runs :
    file.status = "ok" =>
      /\ Len(stdout[p]) = RowsCompleted(p)
      /\ pc[p] = "done" => Len(stdout[p]) = Len(file.rows)

C1_Witness ==
  \E p \in Runs :
    /\ pc[p] = "done"
    /\ Len(file.rows) >= 2
    /\ Len(stdout[p]) = Len(file.rows)

\* C2: the k-th line written is the one generated from the k-th data row of
\* the file: no reordering, skipping or duplication.
C2_InputOrder ==
  \A p \in Runs :
    file.status = "ok" =>
      /\ Len(stdout[p]) <= Len(file.rows)
      /\ \A k \in 1..Len(stdout[p]) : stdout[p][k] = LineOfRow(file, k)

C2_Witness ==
  \E p \in Runs :
    /\ Len(stdout[p]) = 2
    /\ stdout[p][1] # stdout[p][2]
    /\ file.rows[1] # file.rows[2]

\* A row of the input file in which no cell is empty.
NoEmptyCell(row) == \A c \in DOMAIN row : row[c] # <<>>

\* C3: every line written is the template with the row's operation,
\* addressingMode and cycles cells substituted as they appear in the input
\* (stated for rows of a four-column file in which no cell is empty).
C3_CellsVerbatim ==
  \A p \in Runs :
    (file.status = "ok" /\ file.columns = AllColumns) =>
      \A k \in 1..Len(stdout[p]) :
        NoEmptyCell(file.rows[k]) =>
          stdout[p][k] = ExpectedLine(Printed("name", k),
                                      Text(file.rows[k].operation),
                                      Text(file.rows[k].addressingMode),
                                      Text(file.rows[k].cycles))

\* C4: the text of the row's name cell stands verbatim, between double
\* quotes, in the first argument position of the row's line (stated for
\* name cells that are not empty).
C4_NameVerbatim ==
  \A p \in Runs :
    (file.status = "ok" /\ "name" \in file.columns) =>
      \A k \in 1..Len(stdout[p]) :
        file.rows[k].name # <<>> =>
          stdout[p][k] = ExpectedLine(Text(file.rows[k].name),
                                      Printed("operation", k),
                                      Printed("addressingMode", k),
                                      Printed("cycles", k))

\* The text at a field's position in the line of a row Series whose
\* column may be absent.
MarkerOr(row, col) == IF col \in file.columns THEN PyStr(row[col]) ELSE "None"

\* C5: a column absent from the input is no error: the run never aborts,
\* every row still gets its line, and the line holds the missing-value marker
\* None at the position of each absent column.
C5_MissingColumn ==
  \A p \in Runs :
    (file.status = "ok" /\ file.columns # AllColumns) =>
      /\ pc[p] # "aborted"
      /\ pc[p] = "done" => Len(stdout[p]) = Len(file.rows)
      /\ LET loaded == read_csv(file) IN
         \A k \in 1..Len(stdout[p]) :
           LET row == RowSeries(loaded, k) IN
           stdout[p][k] = ExpectedLine(MarkerOr(row, "name"),
                                       MarkerOr(row, "operation"),
                                       MarkerOr(row, "addressingMode"),
                                       MarkerOr(row, "cycles"))

C5_Witness ==
  \E p \in Runs :
    /\ file.status = "ok"
    /\ "cycles" \notin file.columns
    /\ pc[p] = "done"
    /\ Len(stdout[p]) = 2

\* C6: when the file cannot be loaded the run ends abnormally at the load:
\* the loop is never entered, nothing is written, and nothing restarts it.
C6_LoadFailure ==
  \A p \in Runs :
    file.status # "ok" =>
      /\ pc[p] \in {"read_csv", "aborted"}
      /\ it[p] = 0
      /\ stdout[p] = <<>>

C6_Witness ==
  /\ file.status # "ok"
  /\ \A p \in Runs : pc[p] = "aborted"

C8_Termination ==
  /\ (file.status = "ok") ~> (\A p \in Runs : pc[p] = "done")
  /\ [](\A p \in Runs :
          pc[p] = "done" => /\ it[p] = Len(file.rows)
                            /\ Len(stdout[p]) = Len(file.rows))
  /\ [][\A p \in Runs :
          pc[p] = "done" => /\ pc'[p] = "done"
                            /\ stdout'[p] = stdout[p]]_vars

C8_Witness ==
  \E p \in Runs :
    /\ pc[p] = "done"
    /\ it[p] = 2
    /\ Len(stdout[p]) = 2

\* C9: a step writes to standard output only from the print statement, with
\* the four variables holding the lookups of the current row, and it writes
\* exactly one text, the row's; the lookups of a row run before its write
\* and after the write of the row before; the next row is fetched only
\* after the write of the current one.
C9_StepOrder ==
  [][\A p \in Runs :
       /\ stdout'[p] # stdout[p] =>
            /\ pc[p] = "print"
            /\ name[p] = Series_get(r[p], "name")
            /\ operation[p] = Series_get(r[p], "operation")
            /\ addressingMode[p] = Series_get(r[p], "addressingMode")
            /\ cycle[p] = Series_get(r[p], "cycles")
            /\ stdout'[p] = Append(stdout[p],
                 FormatLine(name[p], operation[p], addressingMode[p], cycle[p]) \o "\n")
            /\ Len(stdout'[p]) = it[p]
       /\ (pc[p] # pc'[p] /\ pc[p] \in {"get_name", "get_operation",
                                        "get_addressingMode", "get_cycles"}) =>
            /\ Len(stdout[p]) = it[p] - 1
            /\ stdout'[p] = stdout[p]
       /\ it'[p] # it[p] =>
            /\ it'[p] = it[p] + 1
            /\ Len(stdout[p]) = it[p]
    ]_vars

C9_Witness ==
  \E p \in Runs :
    /\ pc[p] = "print"
    /\ it[p] = 2
    /\ Len(stdout[p]) = 1
    /\ file.rows[1] # file.rows[2]

\* C10: the line written for row k depends on that row's own cells only: any
\* input file with the same columns and the same k-th row gives the same
\* line for row k, whatever its other rows are (stated for rows of a
\* four-column file in which no cell is empty).
C10_RowIndependence ==
  \A p \in Runs :
    (file.status = "ok" /\ file.columns = AllColumns) =>
      \A k \in 1..Len(stdout[p]) :
        \A g \in OkFiles :
          (NoEmptyCell(file.rows[k]) /\ g.columns = file.columns /\ k <= Len(g.rows) /\ g.rows[k] = file.rows[k]) =>
            LineOfRow(g, k) = stdout[p][k]

=============================================================================
